---- MODULE Spec2Model ----
(***************************************************************************)
(* Session coordination engine of Decertify: the coordinator process       *)
(* (app/coordinator/coordinator.py), the session document it mutates       *)
(* (created by app/routes/sessions.py start_session) and the peer command  *)
(* loop (app/workers/peer_worker.py).                                      *)
(***************************************************************************)
EXTENDS Integers, Sequences, FiniteSets, TLC

(***************************************************************************)
(* Bounds of the model.                                                    *)
(***************************************************************************)
NPeers == 2        \* num_peers of the session (peers are uids 1..NPeers)
MaxEpochs == 2     \* epochs a training run reports (range(epochs))
MaxInject == 1     \* events the environment may publish on the event queue
MaxCommands == 3   \* commands sent to the worker on its two sources
MaxSent == 4       \* messages the worker publishes on its heartbeat queue
NConfigs == 2      \* distinct hyperparameter configurations
MaxTime == 10      \* the worker's clock stops advancing here (seconds)
MaxJoins == 3      \* worker processes POST /sessions/join may start

(***************************************************************************)
(* Identifiers.  A peer uid is str(user["_id"]); the session's peers are   *)
(* 1..NPeers in list order.  ForeignUid is a well-formed ObjectId string   *)
(* of a user that is not a peer of this session, BadUid a string that      *)
(* bson.ObjectId rejects, NoUid a missing (or falsy) peer_uid.             *)
(***************************************************************************)
Peers == 1..NPeers
NoUid == 0
ForeignUid == NPeers + 1
BadUid == NPeers + 2
Coordinator == NPeers + 3
total_peers == NPeers

\* the peers of a session in list order (session["peers"][i]["uid"])
AllPeers == [i \in 1..NPeers |-> i]
\* a hyperparameter configuration is an opaque JSON value
HyperConfigs == 1..NConfigs
\* hyperparameter lists of the given length
HyperLists(n) == [1..n -> HyperConfigs]

VARIABLES
    session_status,   \* sessions.status: "ABSENT" until inserted
    session_peers,    \* sessions.peers: the uids, in list order
    hyperparameters,  \* sessions.hyperparameters
    peers_hyperparameters, \* sessions.peers[p].hyperparameters
    peers_status,     \* sessions.peers[p].status
    peers_results,    \* sessions.peers[p].results (buffered write path)
    results,          \* sessions.results[p] (direct mirror)
    final_results,    \* sessions.final_results (empty until it is set)
    completed_at,     \* sessions.completed_at is set
    users_status,     \* users.status of the peers and of the coordinating user
    peer_queue,       \* RabbitMQ queue peer.<uid>.command, per peer
    rabbitmq,         \* coordinator_main: its connection and its channel
    cpc,              \* position of the coordinator process
    cidx,             \* index of the publish loops of coordinator_main
    event,            \* handle_events: the event of the current iteration
    completed_peers,  \* handle_events: completed_peers
    peer_buffers,     \* handle_events: peer_buffers
    streams,          \* coordinator.<uid>.events: what each peer's training
                      \* run has still to deliver to event_queue.get()
    injected,         \* number of events other publishers have delivered
    spoofed,          \* the peers whose uid such an event has carried
    wpc,              \* position of the peer worker in _run_worker
    running,          \* _run_worker: running
    control_queue,    \* the worker's local control queue
    rabbit_cmd_queue, \* the worker's rabbit_cmd_queue (remote commands)
    heartbeat_state,  \* _run_worker: heartbeat_state (enabled, queue,
                      \* last_sent)
    now,              \* the worker's asyncio loop time, in seconds
    source,           \* handle_command: source of the command polled last
    payload,          \* handle_command: payload of the command polled last
    train_epoch,      \* train_dnn: epochs completed by the run in progress
    dataset_file,     \* the local copy of the dataset: "absent", "present",
                      \* or "undeletable" once os.remove has failed on it
    sent,             \* what the worker has published on its heartbeat queue
    sent_at,          \* the loop time at which each of them was published
    commanded,        \* number of commands sent to the worker
    workers,          \* the hosting process's registry of running workers
    processes         \* the worker processes join_session has started:
                      \* whose worker each is, and its local control queue

dbVars == <<session_status, session_peers, hyperparameters,
            peers_hyperparameters, peers_status,
            peers_results, results, final_results, completed_at,
            users_status>>
configVars == <<session_peers, hyperparameters, peers_hyperparameters>>
coordVars == <<cpc, cidx, event, completed_peers, peer_buffers>>
chanVars == <<peer_queue>>
connVars == <<rabbitmq>>
registryVars == <<workers, processes>>
envVars == <<streams, injected, spoofed>>
workerVars == <<wpc, running, control_queue, rabbit_cmd_queue,
                heartbeat_state, now, source, payload, train_epoch,
                dataset_file, sent, sent_at, commanded>>
sessionVars == <<dbVars, coordVars, chanVars, connVars, envVars,
                 registryVars>>
vars == <<sessionVars, workerVars>>

(***************************************************************************)
(* Event payloads, as json.loads leaves them on the asyncio queue.         *)
(***************************************************************************)
Event(shape, uid, has_epoch, epoch, has_metrics, status, type) ==
    [shape |-> shape, peer_uid |-> uid, has_epoch |-> has_epoch,
     epoch |-> epoch, has_metrics |-> has_metrics,
     status |-> status, type |-> type]

\* event = None after asyncio.TimeoutError
NoEvent == Event("none", NoUid, FALSE, 0, FALSE, "none", "none")
\* a body that is not a JSON object (kept as the raw string)
RawEvent == Event("raw", NoUid, FALSE, 0, FALSE, "none", "none")
\* a JSON body that is falsy in Python ({} , 0, "", [], null)
FalsyEvent == Event("falsy", NoUid, FALSE, 0, FALSE, "none", "none")

\* send_heartbeat while training_state["active"]
EpochEvent(uid, epoch) == Event("dict", uid, TRUE, epoch, TRUE, "none", "none")
\* send_heartbeat while idle
IdleEvent(uid) == Event("dict", uid, FALSE, 0, FALSE, "idle", "none")
\* done_payload of train_dnn
DoneEvent(uid) == Event("dict", uid, FALSE, 0, FALSE, "completed", "DONE")

RECURSIVE EpochEvents(_, _, _)
EpochEvents(uid, from, to) ==
    IF from > to THEN <<>>
    ELSE <<EpochEvent(uid, from)>> \o EpochEvents(uid, from + 1, to)

\* what one training run of peer uid publishes, in order
TrainEvents(uid, epochs) == EpochEvents(uid, 1, epochs) \o <<DoneEvent(uid)>>

\* events the environment may publish besides the peers' own streams
InjectEvents ==
    {RawEvent, FalsyEvent, DoneEvent(NoUid), EpochEvent(NoUid, 1)}
    \cup {EpochEvent(u, 1) : u \in Peers \cup {ForeignUid}}
    \cup {Event("dict", u, TRUE, 1, FALSE, "none", "none") : u \in Peers}
    \cup {IdleEvent(u) : u \in Peers \cup {ForeignUid}}
    \cup {DoneEvent(u) : u \in Peers \cup {ForeignUid, BadUid}}
    \cup {Event("dict", u, FALSE, 0, FALSE, "none", "DONE") : u \in Peers}

(***************************************************************************)
(* Command payloads.  publish_command sends json.dumps(payload) for a dict *)
(* and str(payload) otherwise; the peer receives the body as a string.     *)
(***************************************************************************)
\* a key the JSON object does not have
NoKey == 0

\* a command body: besides its form and type, the "queue" of an ENABLE and,
\* of a TRAIN, whether "csv_link" can be downloaded, the top-level "epochs"
\* key, the "hyperparameters" object and "peer_uid"
Command(form, type, queue, link_ok) ==
    [form |-> form, type |-> type, queue |-> queue, link_ok |-> link_ok,
     epochs |-> NoKey, hyperparameters |-> NoKey, peer_uid |-> NoUid]

\* the body publish_command sends for a payload of the given type
encode_payload(is_dict, type) ==
    Command(IF is_dict THEN "json" ELSE "plain", type,
            IF type = "ENABLE" THEN "events" ELSE "none", type = "TRAIN")

\* train_payload of coordinator_main: the TRAIN body with the fields that
\* differ from peer to peer
train_payload(hyperparams, uid) ==
    [form |-> "json", type |-> "TRAIN", queue |-> "none", link_ok |-> TRUE,
     epochs |-> NoKey, hyperparameters |-> hyperparams, peer_uid |-> uid]

\* mutant: the message overtakes what the queue already holds
publish_command_Front(queues, uid, body) ==
    [queues EXCEPT ![uid] = <<body>> \o @]

\* the body is routed to the peer's command queue
publish_command(queues, uid, body) ==
    [queues EXCEPT ![uid] = Append(@, body)]

\* the plain string "STOP" (leave_session puts it on the control queue)
PlainStop == Command("plain", "STOP", "none", FALSE)
\* a string that is not "STOP" and not a JSON object
Garbage == Command("plain", "none", "none", FALSE)
\* no command polled
NoCommand == Command("none", "none", "none", FALSE)

\* the user of the worker that is modelled
Worker == 1

\* a TRAIN body with a top-level "epochs" key, as POST /sessions/command
\* can put on the control queue
TrainWithEpochs(epochs) ==
    [encode_payload(TRUE, "TRAIN") EXCEPT !.epochs = epochs]

\* the strings POST /sessions/command and /sessions/leave may put on the
\* control queue, one for each way handle_command can take a string
Commands ==
    {encode_payload(TRUE, t) : t \in {"ENABLE", "STOP"}}
    \cup {TrainWithEpochs(MaxEpochs)}
    \cup {PlainStop, Garbage,
          Command("json", "ENABLE", "none", FALSE),
          Command("json", "TRAIN", "none", FALSE),
          Command("json", "none", "none", FALSE)}

\* the bodies published to peer.<uid>.command: the coordinator's ENABLE,
\* TRAIN (with any configuration) and STOP, and the plain string "STOP"
RemoteCommands ==
    {encode_payload(TRUE, t) : t \in {"ENABLE", "STOP"}}
    \cup {train_payload(c, Worker) : c \in HyperConfigs}
    \cup {PlainStop}

HasTrain(queue) == \E i \in 1..Len(queue) : queue[i].type = "TRAIN"

\* seconds between two idle heartbeats of a peer
HEARTBEAT_INTERVAL == 5

\* the epochs of a TRAIN body without an "epochs" key
DefaultEpochs == 10

\* epochs = data.get("epochs", 10)
TrainEpochs(data) ==
    IF data.epochs = NoKey THEN DefaultEpochs ELSE data.epochs

\* the "epochs" entry of a hyperparameter configuration (configurations
\* differ in it)
ConfigEpochs(hyperparams) == hyperparams

\* Name of the heartbeat worker process
HEARTBEAT_WORKER == "heartbeat-worker"

\* the registry of a hosting process that has started no worker
EmptyRegistry == [name \in {} |-> name]

\* the RabbitMQ connection before connect_rabbitmq() has been called
NotConnected == [connection |-> "none", channel |-> "none"]

(***************************************************************************)
(* The state before start_session has inserted the session document.       *)
(***************************************************************************)
Init ==
    /\ session_status = "ABSENT"
    /\ session_peers = <<>>
    /\ hyperparameters = <<>>
    /\ peers_hyperparameters = <<>>
    /\ peers_status = [p \in Peers |-> "NONE"]
    /\ peers_results = [p \in Peers |-> <<>>]
    /\ results = <<>>
    /\ final_results = <<>>
    /\ completed_at = FALSE
    /\ users_status = [u \in Peers \cup {Coordinator} |-> "ONLINE"]
    /\ peer_queue = [p \in Peers |-> <<>>]
    /\ rabbitmq = NotConnected
    /\ cpc = "not_started"
    /\ cidx = 1
    /\ event = NoEvent
    /\ completed_peers = {}
    /\ peer_buffers = [p \in Peers |-> <<>>]
    /\ streams = [p \in Peers |-> TrainEvents(p, MaxEpochs)]
    /\ injected = 0
    /\ spoofed = {}
    /\ wpc = "local"
    /\ running = TRUE
    /\ control_queue = <<>>
    /\ rabbit_cmd_queue = <<>>
    /\ heartbeat_state = [enabled |-> FALSE, queue |-> "none", last_sent |-> 0]
    /\ now = HEARTBEAT_INTERVAL
    /\ source = "none"
    /\ payload = NoCommand
    /\ train_epoch = 0
    /\ dataset_file = "absent"
    /\ sent = <<>>
    /\ sent_at = <<>>
    /\ commanded = 0
    /\ workers = EmptyRegistry
    /\ processes = <<>>

(***************************************************************************)
(* POST /sessions/start: locks the peers, inserts the session document     *)
(* with status RUNNING and spawns the coordinator process.                 *)
(***************************************************************************)
\* the uids of a peer list
Uids(peers) == {peers[i] : i \in 1..Len(peers)}

\* mutant: every peer is stored with the last configuration of the list
PeerHyperparameters_Last(peers, hyperparams_list) ==
    [uid \in Uids(peers) |-> hyperparams_list[Len(hyperparams_list)]]

\* peers[peer_uid]["hyperparameters"] = hyperparams_list[i], for i, user in
\* enumerate(available_users)
PeerHyperparameters(peers, hyperparams_list) ==
    [uid \in Uids(peers) |->
        hyperparams_list[CHOOSE i \in 1..Len(peers) : peers[i] = uid]]

\* results[peer_uid] = [] for every peer
EmptyResults(peers) == [uid \in Uids(peers) |-> <<>>]

start_session(hyperparams_list) ==
    /\ cpc = "not_started"
    /\ session_status = "ABSENT"
    /\ Len(hyperparams_list) = NPeers
    /\ \A p \in Peers : users_status[p] = "ONLINE"
    /\ session_peers' = AllPeers
    /\ hyperparameters' = hyperparams_list
    /\ peers_hyperparameters' = PeerHyperparameters(AllPeers, hyperparams_list)
    /\ users_status' = [u \in Peers \cup {Coordinator} |->
                          IF u \in Peers THEN "TRAINING"
                          ELSE "COORDINATOR_RUNNING"]
    /\ session_status' = "RUNNING"
    /\ peers_status' = [p \in Peers |-> "TRAINING"]
    /\ peers_results' = [p \in Peers |-> <<>>]
    /\ results' = EmptyResults(AllPeers)
    /\ completed_at' = FALSE
    /\ cpc' = "load"
    /\ UNCHANGED <<workerVars, registryVars, connVars,
                   final_results, cidx, event, completed_peers,
                   peer_buffers, chanVars, envVars>>

\* connection, channel = await connect_rabbitmq()
connect_rabbitmq == [connection |-> "open", channel |-> "open"]

\* mutant: the `finally` closes the channel and leaves the connection
close_rabbitmq_ChannelOnly(r) == [r EXCEPT !.channel = "closed"]

\* finally: await channel.close(); await connection.close()
close_rabbitmq(r) == [connection |-> "closed", channel |-> "closed"]

\* positions at which coordinator_main has left its try block: it has
\* returned, or an exception of the named step has propagated
Exited(pc) ==
    pc \in {"finished", "aborted", "write_failed", "publish_failed",
            "finalize_failed"}

\* the `finally` of coordinator_main runs when the step leaves the try block
Finally(pc, r) == IF Exited(pc) THEN close_rabbitmq(r) ELSE r

(***************************************************************************)
(* coordinator_main, up to the event loop.                                 *)
(***************************************************************************)
\* mutant: the hyperparameter count is not validated
ConfigFault_NoCount(status, peers, hyperparams_list) ==
    status = "ABSENT" \/ peers = <<>>

\* the three RuntimeErrors raised before RabbitMQ is connected
ConfigFault(status, peers, hyperparams_list) ==
    \/ status = "ABSENT"
    \/ peers = <<>>
    \/ Len(hyperparams_list) < Len(peers)

\* load the session and validate the peer and hyperparameter counts
cm_load ==
    /\ cpc = "load"
    /\ cpc' = IF ConfigFault(session_status, session_peers, hyperparameters)
              THEN "failed"
              ELSE "enable"
    /\ cidx' = 1
    /\ rabbitmq' = IF ConfigFault(session_status, session_peers,
                                   hyperparameters)
                    THEN rabbitmq
                    ELSE connect_rabbitmq
    /\ UNCHANGED <<workerVars, registryVars,
                   dbVars, event, completed_peers, peer_buffers,
                   chanVars, envVars>>

\* for peer in peers: publish ENABLE
cm_enable ==
    /\ cpc = "enable"
    /\ peer_queue' = publish_command(peer_queue, session_peers[cidx],
                                     encode_payload(TRUE, "ENABLE"))
    /\ IF cidx < Len(session_peers)
         THEN cidx' = cidx + 1 /\ cpc' = "enable"
         ELSE cidx' = 1 /\ cpc' = "train"
    /\ UNCHANGED <<workerVars, registryVars, connVars,
                   dbVars, event, completed_peers, peer_buffers,
                   envVars>>

\* mutant: every peer is sent the first configuration
TrainHyperparameters_First(hyperparams_list, idx) == hyperparams_list[1]

\* hyperparams = hyperparams_list[idx]
TrainHyperparameters(hyperparams_list, idx) == hyperparams_list[idx]

\* for idx, peer in enumerate(peers): publish TRAIN; then enter handle_events
\* (hyperparams_list[idx] raises IndexError past the end of the list)
cm_train ==
    /\ cpc = "train"
    /\ IF cidx > Len(hyperparameters)
         THEN /\ cpc' = "aborted"
              /\ UNCHANGED <<peer_queue, cidx, completed_peers, peer_buffers>>
         ELSE /\ peer_queue' =
                   publish_command(peer_queue, session_peers[cidx],
                       train_payload(
                           TrainHyperparameters(hyperparameters, cidx),
                           session_peers[cidx]))
              /\ IF cidx < Len(session_peers)
                   THEN /\ cidx' = cidx + 1
                        /\ cpc' = "train"
                        /\ UNCHANGED <<completed_peers, peer_buffers>>
                   ELSE /\ cidx' = 1
                        /\ cpc' = "he_tick"
                        /\ completed_peers' = {}
                        /\ peer_buffers' = [p \in Peers |-> <<>>]
    /\ rabbitmq' = Finally(cpc', rabbitmq)
    /\ UNCHANGED <<workerVars, registryVars,
                   dbVars, event, envVars>>

(***************************************************************************)
(* handle_events.                                                          *)
(***************************************************************************)
\* mutant: the loop ends as soon as one peer has completed
ExitCondition_AnyPeer(completed) == Cardinality(completed) >= 1

\* len(completed_peers) == total_peers
ExitCondition(completed) == Cardinality(completed) = total_peers

\* `not event`
IsNull(e) == e.shape \in {"none", "falsy"}

\* mutant: the completion flush's update matches no peer
PushResults_NoMatch(pr, uid, batch) == pr

\* $push {"peers.$[peer].results": {"$each": batch}} with peer.uid == uid
PushResults(pr, uid, batch) ==
    IF uid \in DOMAIN pr THEN [pr EXCEPT ![uid] = @ \o batch] ELSE pr

\* the timer flush pushes every non-empty buffer ...
TimerFlushResults(pr, buffers) ==
    [p \in DOMAIN pr |-> pr[p] \o buffers[p]]
\* mutant: the timer flush leaves the buffers it has pushed
TimerFlushBuffers_NoClear(buffers) == buffers

\* ... and clears it
TimerFlushBuffers(buffers) == [p \in DOMAIN buffers |-> <<>>]

\* peer_buffers.get(peer_uid, [])
BufferOf(buffers, uid) == IF uid \in DOMAIN buffers THEN buffers[uid] ELSE <<>>

\* mutant: the completion flush clears every buffer
CompletionFlushBuffers_All(buffers, uid) ==
    IF BufferOf(buffers, uid) # <<>>
    THEN [p \in DOMAIN buffers |-> <<>>]
    ELSE buffers

\* the completion flush clears the buffer it has pushed
CompletionFlushBuffers(buffers, uid) ==
    IF BufferOf(buffers, uid) # <<>>
    THEN [buffers EXCEPT ![uid] = <<>>]
    ELSE buffers

\* mutant: the final flush pushes only the first record of each buffer
FinalFlushResults_HeadOnly(pr, buffers) ==
    [p \in DOMAIN pr |->
        IF buffers[p] = <<>> THEN pr[p] ELSE Append(pr[p], Head(buffers[p]))]

\* mutant: handle_events returns without the final flush
FinalFlushResults_Skip(pr, buffers) == pr

\* the final flush pushes every non-empty buffer ...
FinalFlushResults(pr, buffers) ==
    [p \in DOMAIN pr |-> pr[p] \o buffers[p]]
\* ... and leaves it as it is
FinalFlushBuffers(buffers) == buffers

\* One pass of `while True` down to the timer flush.  pulled is what
\* asyncio.wait_for(event_queue.get(), timeout=0.5) returned; due is
\* now - last_batch_time >= BATCH_INTERVAL.
he_pull(pulled, due) ==
    /\ cpc = "he_tick"
    /\ event' = pulled
    /\ IF due
         THEN /\ peers_results' = TimerFlushResults(peers_results, peer_buffers)
              /\ peer_buffers' = TimerFlushBuffers(peer_buffers)
         ELSE UNCHANGED <<peers_results, peer_buffers>>
    /\ cpc' = "he_dispatch"
    /\ UNCHANGED <<workerVars, registryVars, connVars,
                   configVars, session_status, peers_status,
                   results, final_results, completed_at, users_status, cidx,
                   completed_peers, peer_queue>>

\* the wait times out: event = None
he_tick_timeout ==
    \E due \in BOOLEAN : he_pull(NoEvent, due) /\ UNCHANGED envVars

\* the next event of the training run of a peer that has been sent TRAIN
\* (one producer per peer, so each peer's events arrive in its own order)
he_tick_peer(p) ==
    /\ streams[p] # <<>>
    /\ HasTrain(peer_queue[p])
    /\ \E due \in BOOLEAN : he_pull(Head(streams[p]), due)
    /\ streams' = [streams EXCEPT ![p] = Tail(@)]
    /\ UNCHANGED <<injected, spoofed>>

\* a message of some other publisher on coordinator.<uid>.events
he_tick_other(e) ==
    /\ injected < MaxInject
    /\ \E due \in BOOLEAN : he_pull(e, due)
    /\ injected' = injected + 1
    /\ spoofed' = spoofed \cup ({e.peer_uid} \cap Peers)
    /\ UNCHANGED streams

\* mutant: an event without peer_uid is not discarded
AfterEvent_KeepNoUid(e, completed, buffers) ==
    IF IsNull(e)
    THEN (IF ExitCondition(completed) THEN "he_final" ELSE "he_tick")
    ELSE IF e.shape # "dict" THEN "he_tick"
    ELSE IF e.has_epoch
         THEN (IF e.has_metrics /\ e.peer_uid \in DOMAIN buffers
               THEN "he_tick" ELSE "aborted")
    ELSE IF e.status = "idle" THEN "he_tick"
    ELSE IF e.type = "DONE" /\ e.status = "completed" THEN "he_done_flush"
    ELSE "he_tick"

\* where the iteration goes once the event has been looked at
AfterEvent(e, completed, buffers) ==
    IF IsNull(e)
    THEN (IF ExitCondition(completed) THEN "he_final" ELSE "he_tick")
    ELSE IF e.shape # "dict" THEN "he_tick"
    ELSE IF e.peer_uid = NoUid THEN "he_tick"
    ELSE IF e.has_epoch
         THEN (IF e.has_metrics /\ e.peer_uid \in DOMAIN buffers
               THEN "he_tick" ELSE "aborted")
    ELSE IF e.status = "idle" THEN "he_tick"
    ELSE IF e.type = "DONE" /\ e.status = "completed" THEN "he_done_flush"
    ELSE "he_tick"

\* the event is an EPOCH heartbeat that reaches both writes
IsStoredEpoch(e, buffers) ==
    /\ ~IsNull(e) /\ e.shape = "dict" /\ e.peer_uid # NoUid
    /\ e.has_epoch /\ e.has_metrics /\ e.peer_uid \in DOMAIN buffers

\* mutant: the record is put at the front of the buffer
BufferEpoch_Front(buffers, uid, epoch_result) ==
    [buffers EXCEPT ![uid] = <<epoch_result>> \o @]

\* peer_buffers[peer_uid].append(epoch_result)
BufferEpoch(buffers, uid, epoch_result) ==
    [buffers EXCEPT ![uid] = Append(@, epoch_result)]
\* mutant: the mirror write is left out
MirrorEpoch_Skip(res, uid, epoch_result) == res

\* $push {"results.<peer_uid>": {"$each": [epoch_result]}}: the key is
\* created when the map does not have it
MirrorEpoch(res, uid, epoch_result) ==
    IF uid \in DOMAIN res
    THEN [res EXCEPT ![uid] = Append(@, epoch_result)]
    ELSE [k \in DOMAIN res \cup {uid} |->
             IF k = uid THEN <<epoch_result>> ELSE res[k]]

\* mutant: the mirror write comes before the buffer append
IsMirroredEpoch_BeforeBuffer(e, buffers) ==
    /\ ~IsNull(e) /\ e.shape = "dict" /\ e.peer_uid # NoUid
    /\ e.has_epoch /\ e.has_metrics

\* the mirror write is reached only when peer_buffers[peer_uid].append has
\* not raised
IsMirroredEpoch(e, buffers) == IsStoredEpoch(e, buffers)

\* the rest of the pass: exit check, discards, EPOCH and IDLE branches
he_dispatch ==
    /\ cpc = "he_dispatch"
    /\ cpc' = AfterEvent(event, completed_peers, peer_buffers)
    /\ peer_buffers' =
          IF IsStoredEpoch(event, peer_buffers)
          THEN BufferEpoch(peer_buffers, event.peer_uid, event.epoch)
          ELSE peer_buffers
    /\ results' =
          IF IsMirroredEpoch(event, peer_buffers)
          THEN MirrorEpoch(results, event.peer_uid, event.epoch)
          ELSE results
    /\ rabbitmq' = Finally(cpc', rabbitmq)
    /\ UNCHANGED <<workerVars, registryVars,
                   configVars, session_status, peers_status,
                   peers_results, final_results, completed_at, users_status,
                   cidx, event, completed_peers, chanVars, envVars>>

\* DONE branch: flush the peer's remaining buffer
he_done_flush ==
    /\ cpc = "he_done_flush"
    /\ peers_results' = PushResults(peers_results, event.peer_uid,
                                    BufferOf(peer_buffers, event.peer_uid))
    /\ peer_buffers' = CompletionFlushBuffers(peer_buffers, event.peer_uid)
    /\ cpc' = "he_done_add"
    /\ UNCHANGED <<workerVars, registryVars, connVars,
                   configVars, session_status, peers_status,
                   results, final_results, completed_at, users_status, cidx,
                   event, completed_peers, chanVars, envVars>>

\* mutant: completed_peers holds the peer that completed last
AddCompleted_Replace(completed, uid) == {uid}

\* completed_peers.add(peer_uid)
AddCompleted(completed, uid) == completed \cup {uid}

he_done_add ==
    /\ cpc = "he_done_add"
    /\ completed_peers' = AddCompleted(completed_peers, event.peer_uid)
    /\ cpc' = "he_done_status"
    /\ UNCHANGED <<workerVars, registryVars, connVars,
                   dbVars, cidx, event, peer_buffers, chanVars,
                   envVars>>

\* mutant: the update matches every peer sub-document
SetOffline_All(status, uid) == [u \in DOMAIN status |-> "OFFLINE"]

\* $set peers.$.status = OFFLINE where peers.uid == peer_uid
SetOffline(status, uid) ==
    IF uid \in DOMAIN status THEN [status EXCEPT ![uid] = "OFFLINE"] ELSE status

he_done_status ==
    /\ cpc = "he_done_status"
    /\ peers_status' = SetOffline(peers_status, event.peer_uid)
    /\ cpc' = "he_done_user"
    /\ UNCHANGED <<workerVars, registryVars, connVars,
                   configVars, session_status, peers_results,
                   results, final_results, completed_at, users_status, cidx,
                   event, completed_peers, peer_buffers, chanVars, envVars>>

\* mutant: a peer is sent STOP as soon as its DONE has been handled
he_done_user_StopsPeer ==
    /\ cpc = "he_done_user"
    /\ IF event.peer_uid = BadUid
         THEN cpc' = "aborted" /\ UNCHANGED <<users_status, peer_queue>>
         ELSE /\ cpc' = "he_tick"
              /\ users_status' = SetOffline(users_status, event.peer_uid)
              /\ peer_queue' =
                    IF event.peer_uid \in Peers
                    THEN publish_command(peer_queue, event.peer_uid,
                                         encode_payload(TRUE, "STOP"))
                    ELSE peer_queue
    /\ rabbitmq' = Finally(cpc', rabbitmq)
    /\ UNCHANGED <<workerVars, registryVars,
                   configVars, session_status, peers_status,
                   peers_results, results, final_results, completed_at, cidx,
                   event, completed_peers, peer_buffers, envVars>>

\* users.update_one({"_id": ObjectId(peer_uid)}, status OFFLINE)
he_done_user ==
    /\ cpc = "he_done_user"
    /\ IF event.peer_uid = BadUid
         THEN cpc' = "aborted" /\ UNCHANGED users_status
         ELSE /\ cpc' = "he_tick"
              /\ users_status' = SetOffline(users_status, event.peer_uid)
    /\ rabbitmq' = Finally(cpc', rabbitmq)
    /\ UNCHANGED <<workerVars, registryVars,
                   configVars, session_status, peers_status,
                   peers_results, results, final_results, completed_at, cidx,
                   event, completed_peers, peer_buffers, chanVars, envVars>>

\* the final flush, then return completed_peers
he_final ==
    /\ cpc = "he_final"
    /\ peers_results' = FinalFlushResults(peers_results, peer_buffers)
    /\ peer_buffers' = FinalFlushBuffers(peer_buffers)
    /\ cpc' = "stop"
    /\ cidx' = 1
    /\ UNCHANGED <<workerVars, registryVars, connVars,
                   configVars, session_status, peers_status,
                   results, final_results, completed_at, users_status, event,
                   completed_peers, chanVars, envVars>>

(***************************************************************************)
(* coordinator_main after the event loop.                                  *)
(***************************************************************************)
\* for peer in peers: publish {"type": "STOP"}
cm_stop ==
    /\ cpc = "stop"
    /\ peer_queue' = publish_command(peer_queue, session_peers[cidx],
                                     encode_payload(TRUE, "STOP"))
    /\ IF cidx < Len(session_peers)
         THEN cidx' = cidx + 1 /\ cpc' = "stop"
         ELSE cidx' = 1 /\ cpc' = "finalize"
    /\ UNCHANGED <<workerVars, registryVars, connVars,
                   dbVars, event, completed_peers, peer_buffers,
                   envVars>>

\* the position of the last entry of the peer list with the given uid
IndexOf(peers, uid) ==
    CHOOSE i \in 1..Len(peers) :
        /\ peers[i] = uid
        /\ \A j \in 1..Len(peers) : peers[j] = uid => j <= i

\* mutant: the results of the peers are not read back
FinalResults_Unread(peers, hyperparams_list, pr) ==
    [uid \in {peers[i] : i \in 1..Len(peers)} |->
        [hyperparameters |-> hyperparams_list[IndexOf(peers, uid)],
         results |-> <<>>]]

\* mutant: every entry carries the first configuration
FinalResults_First(peers, hyperparams_list, pr) ==
    [uid \in {peers[i] : i \in 1..Len(peers)} |->
        [hyperparameters |-> hyperparams_list[1], results |-> pr[uid]]]

\* final_results[peer["uid"]] = {hyperparameters: hyperparams_list[idx],
\* results: the peer's persisted results}, for idx, peer in enumerate(peers)
FinalResults(peers, hyperparams_list, pr) ==
    [uid \in {peers[i] : i \in 1..Len(peers)} |->
        [hyperparameters |-> hyperparams_list[IndexOf(peers, uid)],
         results |-> pr[uid]]]

\* mutant: the final update sets the status and final_results and leaves
\* completed_at out
cm_finalize_NoTimestamp ==
    /\ cpc = "finalize"
    /\ final_results' =
           FinalResults(session_peers, hyperparameters, peers_results)
    /\ session_status' = "COMPLETED"
    /\ cpc' = "mark_user"
    /\ UNCHANGED <<workerVars, registryVars, connVars,
                   configVars, peers_status, peers_results,
                   results, users_status, cidx, event, completed_peers,
                   peer_buffers, chanVars, envVars, completed_at>>

\* re-read every peer's results, then the single $set of the final state
cm_finalize ==
    /\ cpc = "finalize"
    /\ final_results' =
           FinalResults(session_peers, hyperparameters, peers_results)
    /\ session_status' = "COMPLETED"
    /\ completed_at' = TRUE
    /\ cpc' = "mark_user"
    /\ UNCHANGED <<workerVars, registryVars, connVars,
                   configVars, peers_status, peers_results,
                   results, users_status, cidx, event, completed_peers,
                   peer_buffers, chanVars, envVars>>

\* users.update_one(coordinator, status OFFLINE)
cm_mark_user ==
    /\ cpc = "mark_user"
    /\ users_status' = [users_status EXCEPT ![Coordinator] = "OFFLINE"]
    /\ cpc' = "finished"
    /\ rabbitmq' = Finally(cpc', rabbitmq)
    /\ UNCHANGED <<workerVars, registryVars,
                   configVars, session_status, peers_status,
                   peers_results, results, final_results, completed_at, cidx,
                   event, completed_peers, peer_buffers, chanVars, envVars>>

coordinator_step ==
    \/ cm_load \/ cm_enable \/ cm_train
    \/ he_tick_timeout
    \/ \E p \in Peers : he_tick_peer(p)
    \/ \E e \in InjectEvents : he_tick_other(e)
    \/ he_dispatch
    \/ he_done_flush \/ he_done_add \/ he_done_status \/ he_done_user
    \/ he_final
    \/ cm_stop \/ cm_finalize \/ cm_mark_user

\* the hyperparameter list of the request when nothing depends on it
DefaultHyperparameters == [i \in 1..NPeers |-> ((i - 1) % NConfigs) + 1]

Next ==
    \/ start_session(DefaultHyperparameters)
    \/ coordinator_step

Spec == Init /\ [][Next]_vars

(***************************************************************************)
(* The session with no publisher on the event queue but its own peers.     *)
(* The coordinator process keeps running, and every event a peer publishes *)
(* is eventually returned by event_queue.get().                            *)
(***************************************************************************)
session_step ==
    \/ start_session(DefaultHyperparameters)
    \/ cm_load \/ cm_enable \/ cm_train
    \/ he_tick_timeout
    \/ \E p \in Peers : he_tick_peer(p)
    \/ he_dispatch
    \/ he_done_flush \/ he_done_add \/ he_done_status \/ he_done_user
    \/ he_final
    \/ cm_stop \/ cm_finalize \/ cm_mark_user

NextPeersOnly == session_step

SpecPeersOnly == Init /\ [][NextPeersOnly]_vars

FairSpecPeersOnly ==
    /\ SpecPeersOnly
    /\ WF_vars(NextPeersOnly)
    /\ \A p \in Peers : SF_vars(he_tick_peer(p))

(***************************************************************************)
(* The coordinator started on any session document: the ones start_session *)
(* inserts, for every hyperparameter list, and the ones it would not have  *)
(* inserted (no document, no peers, a hyperparameter list shorter or       *)
(* longer than the peer list).                                             *)
(***************************************************************************)
SessionDoc(status, peers, hyperparams_list) ==
    [status |-> status, peers |-> peers, hyperparameters |-> hyperparams_list]

\* find_one returns None
MissingDoc == SessionDoc("ABSENT", <<>>, <<>>)

SessionDocs ==
    {MissingDoc}
    \cup {SessionDoc("RUNNING", <<>>, hp) :
             hp \in HyperLists(0) \cup HyperLists(1)}
    \cup {SessionDoc("RUNNING", AllPeers, hp) :
             hp \in UNION {HyperLists(n) : n \in 0..(NPeers + 1) \ {NPeers}}}

\* run_coordinator(session_uid, coordinator_uid) for a session_uid whose
\* document is doc
run_coordinator(doc) ==
    /\ cpc = "not_started"
    /\ session_status = "ABSENT"
    /\ session_status' = doc.status
    /\ session_peers' = doc.peers
    /\ hyperparameters' = doc.hyperparameters
    /\ results' = EmptyResults(doc.peers)
    /\ peers_status' = [p \in Peers |->
                          IF \E i \in 1..Len(doc.peers) : doc.peers[i] = p
                          THEN "TRAINING" ELSE "NONE"]
    /\ cpc' = "load"
    /\ UNCHANGED <<workerVars, registryVars, connVars,
                   peers_hyperparameters, peers_results,
                   final_results, completed_at, users_status, cidx, event,
                   completed_peers, peer_buffers, chanVars, envVars>>

config_step ==
    \/ cm_load \/ cm_enable \/ cm_train
    \/ he_tick_timeout
    \/ \E p \in Peers : he_tick_peer(p)
    \/ he_dispatch
    \/ he_done_flush \/ he_done_add \/ he_done_status \/ he_done_user
    \/ he_final
    \/ cm_stop \/ cm_finalize \/ cm_mark_user

NextConfig ==
    \/ \E hp \in HyperLists(NPeers) : start_session(hp)
    \/ \E doc \in SessionDocs : run_coordinator(doc)
    \/ config_step

SpecConfig == Init /\ [][NextConfig]_vars

(***************************************************************************)
(* The sessions POST /sessions/start creates, for every hyperparameter     *)
(* list a request may carry: the lists of the wrong length are rejected    *)
(* (HTTP 400) before anything is written.                                  *)
(***************************************************************************)
RequestLists ==
    UNION {HyperLists(n) : n \in (NPeers - 1)..(NPeers + 1)}

NextStart ==
    \/ \E hp \in RequestLists : start_session(hp)
    \/ config_step

SpecStart == Init /\ [][NextStart]_vars

(***************************************************************************)
(* The session when the durable store may reject a flush: update_one      *)
(* raises (a pymongo error).  No statement of handle_events or of          *)
(* coordinator_main catches it, so it leaves both (the `finally` of        *)
(* coordinator_main only closes the channel).  The same holds for a        *)
(* publish of the STOP loop and for the reads and the write that follow.   *)
(***************************************************************************)
\* the loops over peer_buffers.items() have pushed the batches of the peers
\* before uid when the write for uid raises
FlushedBeforeFault(pr, buffers, uid) ==
    [q \in DOMAIN pr |-> IF q < uid THEN pr[q] \o buffers[q] ELSE pr[q]]
\* ... and the timer flush has cleared their buffers
ClearedBeforeFault(buffers, uid) ==
    [q \in DOMAIN buffers |-> IF q < uid THEN <<>> ELSE buffers[q]]

\* a pass whose timer flush is due and whose update_one for peer uid raises;
\* the event the pass had pulled (none, or a peer's next one) is lost
he_timer_flush_fault(uid) ==
    /\ cpc = "he_tick"
    /\ peer_buffers[uid] # <<>>
    /\ \/ event' = NoEvent /\ UNCHANGED streams
       \/ \E p \in Peers :
             /\ streams[p] # <<>>
             /\ HasTrain(peer_queue[p])
             /\ event' = Head(streams[p])
             /\ streams' = [streams EXCEPT ![p] = Tail(@)]
    /\ peers_results' = FlushedBeforeFault(peers_results, peer_buffers, uid)
    /\ peer_buffers' = ClearedBeforeFault(peer_buffers, uid)
    /\ cpc' = "write_failed"
    /\ rabbitmq' = Finally(cpc', rabbitmq)
    /\ UNCHANGED <<workerVars, registryVars,
                   configVars, session_status, peers_status,
                   results, final_results, completed_at, users_status, cidx,
                   completed_peers, peer_queue, injected, spoofed>>

\* the update_one of the completion flush raises
he_done_flush_fault ==
    /\ cpc = "he_done_flush"
    /\ BufferOf(peer_buffers, event.peer_uid) # <<>>
    /\ cpc' = "write_failed"
    /\ rabbitmq' = Finally(cpc', rabbitmq)
    /\ UNCHANGED <<workerVars, registryVars,
                   dbVars, cidx, event, completed_peers,
                   peer_buffers, chanVars, envVars>>

\* the update_one of the final flush for peer uid raises
he_final_flush_fault(uid) ==
    /\ cpc = "he_final"
    /\ peer_buffers[uid] # <<>>
    /\ peers_results' = FlushedBeforeFault(peers_results, peer_buffers, uid)
    /\ cpc' = "write_failed"
    /\ rabbitmq' = Finally(cpc', rabbitmq)
    /\ UNCHANGED <<workerVars, registryVars,
                   configVars, session_status, peers_status,
                   results, final_results, completed_at, users_status, cidx,
                   event, completed_peers, peer_buffers, chanVars, envVars>>

\* a publish of the ENABLE, the TRAIN or the STOP loop raises (the channel
\* or the connection is lost)
cm_publish_fault ==
    /\ cpc \in {"enable", "train", "stop"}
    /\ cpc' = "publish_failed"
    /\ rabbitmq' = Finally(cpc', rabbitmq)
    /\ UNCHANGED <<workerVars, registryVars,
                   dbVars, cidx, event, completed_peers,
                   peer_buffers, chanVars, envVars>>

\* a find_one of the read-back, or the final update_one, raises
cm_finalize_fault ==
    /\ cpc = "finalize"
    /\ cpc' = "finalize_failed"
    /\ rabbitmq' = Finally(cpc', rabbitmq)
    /\ UNCHANGED <<workerVars, registryVars,
                   dbVars, cidx, event, completed_peers,
                   peer_buffers, chanVars, envVars>>

NextFaults ==
    \/ Next
    \/ \E uid \in Peers : he_timer_flush_fault(uid)
    \/ he_done_flush_fault
    \/ \E uid \in Peers : he_final_flush_fault(uid)
    \/ cm_publish_fault
    \/ cm_finalize_fault

SpecFaults == Init /\ [][NextFaults]_vars

\* the same faults in the session whose event queue carries nothing but
\* its own peers' events (every buffer is empty when the final flush is
\* reached, so that flush writes nothing)
NextExits ==
    \/ session_step
    \/ \E uid \in Peers : he_timer_flush_fault(uid)
    \/ he_done_flush_fault
    \/ cm_publish_fault
    \/ cm_finalize_fault

SpecExits == Init /\ [][NextExits]_vars

(***************************************************************************)
(* The peer worker (peer_worker.py), for the worker of user Worker.  Its   *)
(* commands arrive on the local control queue (POST /sessions/command,     *)
(* /sessions/leave) and on its RabbitMQ command queue.                     *)
(***************************************************************************)
\* the value handle_command returns for a command that is not TRAIN
handle_command_result(cmd) ==
    IF cmd.form = "plain" /\ cmd.type = "STOP" THEN FALSE ELSE TRUE

\* data is a dict whose type is the given one
IsJson(cmd, type) == cmd.form = "json" /\ cmd.type = type

\* mutant: ENABLE switches heartbeats on without attaching the queue
enable_state_NoQueue(cmd) ==
    [enabled |-> TRUE, queue |-> "none", last_sent |-> 0]

\* heartbeat_state.update(...) of the ENABLE branch; the queue is None
\* when the command names none (attach_heartbeat_queue)
enable_state(cmd) ==
    [enabled |-> TRUE, queue |-> cmd.queue, last_sent |-> 0]

\* mutant: the publishing does not look at heartbeat_state
CanPublish_Always(hs) == TRUE

\* send_heartbeat and the DONE marker publish only to an enabled, attached
\* heartbeat queue
CanPublish(hs) == hs.enabled /\ hs.queue # "none"

\* maybe_send_heartbeat goes on to send_heartbeat
HeartbeatDue(time, hs) == time - hs.last_sent >= HEARTBEAT_INTERVAL

\* heartbeat_state["last_sent"] = loop.time() once send_heartbeat has
\* published
Stamp(hs, time) == [hs EXCEPT !.last_sent = time]

\* how long asyncio.sleep(LOOP_SLEEP) may take, and how long an epoch
SleepDelays == {0, 1}
EpochDelays == {0, 1, HEARTBEAT_INTERVAL}

\* where the loop goes on after the command of the given source
AfterSource(src) == IF src = "local" THEN "remote" ELSE "beat"

\* mutant: the polls go on while train_dnn runs
AtPoll_WhileTraining(pc, src) == pc \in {src, "training"}

\* the loop is at the poll of the given source; `await handle_command`
\* keeps it from both polls while train_dnn runs
AtPoll(pc, src) == pc = src

\* mutant: the heartbeat carries the 0-based loop index
EpochNumber_ZeroBased(epoch) == epoch

\* epoch=epoch+1 of the send_heartbeat call, for epoch in range(epochs)
EpochNumber(epoch) == epoch + 1

\* s3.download_file writes the local file, unless the link is rejected
download_dataset_from_s3(cmd, file) ==
    IF cmd.link_ok THEN "present" ELSE file

\* os.remove(dataset_path) of the cleanup: the file is gone, or the call
\* raised and the file is still there
RemoveOutcomes == {"absent", "undeletable"}

\* handle_command(process_uid, session_uid, src, cmd, ...) up to its return,
\* or up to the start of train_dnn
handle_command(src, cmd) ==
    /\ source' = src
    /\ payload' = cmd
    /\ IF IsJson(cmd, "TRAIN")
         THEN \* download_dataset_from_s3 raises on a bad link
              /\ wpc' = IF cmd.link_ok THEN "training" ELSE "crashed"
              /\ dataset_file' = download_dataset_from_s3(cmd, dataset_file)
              /\ train_epoch' = 0
              /\ UNCHANGED <<running, heartbeat_state>>
         ELSE /\ running' = handle_command_result(cmd)
              /\ heartbeat_state' = IF IsJson(cmd, "ENABLE")
                                     THEN enable_state(cmd)
                                     ELSE heartbeat_state
              /\ wpc' = AfterSource(src)
              /\ UNCHANGED <<train_epoch, dataset_file>>

\* `while running`: the loop ends when running is false
w_exit ==
    /\ wpc = "local"
    /\ ~running
    /\ wpc' = "exited"
    /\ UNCHANGED <<sessionVars, running, control_queue, rabbit_cmd_queue,
                   heartbeat_state, now, source, payload, train_epoch, sent,
                   sent_at, commanded, dataset_file>>

\* control_queue.get_nowait() and the command's handling
w_local ==
    /\ AtPoll(wpc, "local")
    /\ running
    /\ IF control_queue = <<>>
         THEN /\ wpc' = "remote"
              /\ source' = "local"
              /\ payload' = NoCommand
              /\ UNCHANGED <<running, control_queue, heartbeat_state,
                             train_epoch, dataset_file>>
         ELSE /\ handle_command("local", Head(control_queue))
              /\ control_queue' = Tail(control_queue)
    /\ UNCHANGED <<sessionVars, rabbit_cmd_queue, now, sent, sent_at,
                   commanded>>

\* rabbit_cmd_queue.get_nowait() and the command's handling
w_remote ==
    /\ AtPoll(wpc, "remote")
    /\ IF rabbit_cmd_queue = <<>>
         THEN /\ wpc' = "beat"
              /\ source' = "rabbitmq"
              /\ payload' = NoCommand
              /\ UNCHANGED <<running, rabbit_cmd_queue, heartbeat_state,
                             train_epoch, dataset_file>>
         ELSE /\ handle_command("rabbitmq", Head(rabbit_cmd_queue))
              /\ rabbit_cmd_queue' = Tail(rabbit_cmd_queue)
    /\ UNCHANGED <<sessionVars, control_queue, now, sent, sent_at,
                   commanded>>

\* train_dnn raises before its first epoch (read_csv, the label column,
\* the tensors): the exception leaves handle_command and _run_worker
w_train_fail ==
    /\ wpc = "training"
    /\ train_epoch = 0
    /\ wpc' = "crashed"
    /\ UNCHANGED <<sessionVars, running, control_queue, rabbit_cmd_queue,
                   heartbeat_state, now, source, payload, train_epoch, sent,
                   sent_at, commanded, dataset_file>>

\* one epoch of train_dnn and its EPOCH heartbeat
w_train_epoch ==
    /\ wpc = "training"
    /\ train_epoch < TrainEpochs(payload)
    /\ train_epoch' = train_epoch + 1
    /\ \E d \in EpochDelays :
          /\ now + d <= MaxTime
          /\ now' = now + d
    /\ IF CanPublish(heartbeat_state)
         THEN /\ Len(sent) < MaxSent
              /\ sent' = Append(sent,
                                EpochEvent(Worker, EpochNumber(train_epoch)))
              /\ sent_at' = Append(sent_at, now')
              /\ heartbeat_state' = Stamp(heartbeat_state, now')
         ELSE UNCHANGED <<sent, sent_at, heartbeat_state>>
    /\ UNCHANGED <<sessionVars, wpc, running, control_queue,
                   rabbit_cmd_queue, source, payload, commanded,
                   dataset_file>>

\* the end of train_dnn: the DONE marker, the cleanup, and handle_command's
\* return True
w_train_done ==
    /\ wpc = "training"
    /\ train_epoch = TrainEpochs(payload)
    /\ IF CanPublish(heartbeat_state)
         THEN /\ Len(sent) < MaxSent
              /\ sent' = Append(sent, DoneEvent(Worker))
              /\ sent_at' = Append(sent_at, now)
         ELSE UNCHANGED <<sent, sent_at>>
    /\ dataset_file' \in RemoveOutcomes
    /\ running' = TRUE
    /\ wpc' = AfterSource(source)
    /\ UNCHANGED <<sessionVars, control_queue, rabbit_cmd_queue,
                   heartbeat_state, now, source, payload, train_epoch,
                   commanded>>

\* maybe_send_heartbeat with training_state {"active": False}, then the
\* loop's sleep
w_beat ==
    /\ wpc = "beat"
    /\ IF HeartbeatDue(now, heartbeat_state) /\ CanPublish(heartbeat_state)
         THEN /\ Len(sent) < MaxSent
              /\ sent' = Append(sent, IdleEvent(Worker))
              /\ sent_at' = Append(sent_at, now)
              /\ heartbeat_state' = Stamp(heartbeat_state, now)
         ELSE UNCHANGED <<sent, sent_at, heartbeat_state>>
    /\ \E d \in SleepDelays :
          /\ now + d <= MaxTime
          /\ now' = now + d
    /\ wpc' = "local"
    /\ UNCHANGED <<sessionVars, running, control_queue, rabbit_cmd_queue,
                   source, payload, train_epoch, commanded, dataset_file>>

\* POST /sessions/command or /sessions/leave puts a string on the control
\* queue
send_local(cmd) ==
    /\ commanded < MaxCommands
    /\ commanded' = commanded + 1
    /\ control_queue' = Append(control_queue, cmd)
    /\ UNCHANGED <<sessionVars, wpc, running, rabbit_cmd_queue,
                   heartbeat_state, now, source, payload, train_epoch, sent,
                   sent_at, dataset_file>>

\* a message arrives on peer.<uid>.command (on_message puts its body on
\* rabbit_cmd_queue)
send_remote(cmd) ==
    /\ commanded < MaxCommands
    /\ commanded' = commanded + 1
    /\ rabbit_cmd_queue' = Append(rabbit_cmd_queue, cmd)
    /\ UNCHANGED <<sessionVars, wpc, running, control_queue, heartbeat_state,
                   now, source, payload, train_epoch, sent, sent_at,
                   dataset_file>>

worker_step ==
    \/ w_exit \/ w_local \/ w_remote
    \/ w_train_fail \/ w_train_epoch \/ w_train_done \/ w_beat

NextWorker ==
    \/ worker_step
    \/ \E cmd \in Commands : send_local(cmd)
    \/ \E cmd \in RemoteCommands : send_remote(cmd)

SpecWorker == Init /\ [][NextWorker]_vars

(***************************************************************************)
(* The worker registry of the hosting process (POST /sessions/join and     *)
(* POST /sessions/leave).  The handlers are coroutines without an await,   *)
(* so each runs to its end before the next request is served.              *)
(***************************************************************************)
\* the users that call the two endpoints; BadUid is a token subject that
\* bson.ObjectId rejects
Callers == Peers \cup {Coordinator, BadUid}

\* mutant: join_session does not look at the registry
AlreadyRunning_Never(registry) == FALSE

\* HEARTBEAT_WORKER in workers
AlreadyRunning(registry) == HEARTBEAT_WORKER \in DOMAIN registry

\* Process(target=peer_worker, args=(HEARTBEAT_WORKER, session_uid,
\* command_queue_name, control_queue)) with control_queue = Queue()
NewProcess(session_uid) ==
    [session_uid |-> session_uid, control_queue |-> <<>>]

\* workers[HEARTBEAT_WORKER] = {"process": process, "control_queue":
\* control_queue, "session_uid": session_uid, ...}
Register(registry, process, session_uid) ==
    [name \in DOMAIN registry \cup {HEARTBEAT_WORKER} |->
        IF name = HEARTBEAT_WORKER
        THEN [process |-> process, session_uid |-> session_uid]
        ELSE registry[name]]

\* del workers[HEARTBEAT_WORKER]
Unregister(registry) ==
    [name \in DOMAIN registry \ {HEARTBEAT_WORKER} |-> registry[name]]

\* worker["control_queue"].put("STOP")
PutStop(procs, process) ==
    [procs EXCEPT ![process].control_queue = Append(@, PlainStop)]

\* POST /sessions/join by user_id
join_session(user_id) ==
    /\ Len(processes) < MaxJoins
    /\ IF user_id = BadUid \/ AlreadyRunning(workers)
         THEN UNCHANGED <<workers, processes, users_status>>
         ELSE /\ processes' = Append(processes, NewProcess(user_id))
              /\ users_status' = [users_status EXCEPT ![user_id] = "ONLINE"]
              /\ workers' = Register(workers, Len(processes) + 1, user_id)
    /\ UNCHANGED <<workerVars, connVars, configVars, session_status,
                   peers_status, peers_results, results, final_results,
                   completed_at, coordVars, chanVars, envVars>>

\* POST /sessions/leave by user_id
leave_session(user_id) ==
    /\ user_id # BadUid
    /\ IF HEARTBEAT_WORKER \in DOMAIN workers
         THEN /\ processes' =
                    PutStop(processes, workers[HEARTBEAT_WORKER].process)
              /\ workers' = Unregister(workers)
         ELSE UNCHANGED <<workers, processes>>
    /\ users_status' = [users_status EXCEPT ![user_id] = "OFFLINE"]
    /\ UNCHANGED <<workerVars, connVars, configVars, session_status,
                   peers_status, peers_results, results, final_results,
                   completed_at, coordVars, chanVars, envVars>>

NextRegistry ==
    \/ \E user_id \in Callers : join_session(user_id)
    \/ \E user_id \in Callers : leave_session(user_id)

SpecRegistry == Init /\ [][NextRegistry]_vars

(***************************************************************************)
(* Properties.                                                             *)
(***************************************************************************)
\* handle_events has returned to coordinator_main
Returned == cpc \in {"stop", "finalize", "mark_user", "finished"}

RECURSIVE EpochsUpTo(_)
EpochsUpTo(n) == IF n = 0 THEN <<>> ELSE Append(EpochsUpTo(n - 1), n)

StrictlyIncreasing(seq) ==
    \A i \in 1..Len(seq) : \A j \in 1..Len(seq) : i < j => seq[i] < seq[j]

IsPrefix(a, b) == Len(a) <= Len(b) /\ SubSeq(b, 1, Len(a)) = a

\* C1: when handle_events has returned, every peer of the session has had
\* its own DONE event processed (it is in completed_peers).
C1_ReturnsOnlyWhenAllPeersDone ==
    Returned => \A p \in Peers : p \in completed_peers

\* C2: the session starts RUNNING, becomes COMPLETED only from RUNNING, only
\* by coordinator_main's final update and only when every peer of the
\* session has signaled DONE, and never leaves COMPLETED.
C2_CompletedOnceAfterAllDone ==
    [][/\ (session_status = "ABSENT" /\ session_status' # "ABSENT")
            => session_status' = "RUNNING"
       /\ (session_status # "COMPLETED" /\ session_status' = "COMPLETED")
            => /\ session_status = "RUNNING"
               /\ cpc = "finalize"
               /\ \A p \in Peers : p \in completed_peers
       /\ session_status = "COMPLETED" => session_status' = "COMPLETED"]_vars

\* C3: with peers that each report epochs 1..MaxEpochs and then DONE, under
\* every interleaving, the run ends with the session COMPLETED and every
\* peer's persisted results being exactly the records 1..MaxEpochs in order.
C3_AllInterleavingsComplete ==
    <>[](/\ session_status = "COMPLETED"
         /\ \A p \in Peers : peers_results[p] = EpochsUpTo(MaxEpochs))

C3_Witness ==
    /\ cpc = "finished"
    /\ session_status = "COMPLETED"
    /\ \A p \in Peers : peers_results[p] = EpochsUpTo(MaxEpochs)
    /\ \A p \in Peers : final_results[p].results = EpochsUpTo(MaxEpochs)

\* C4: a STOP command ends the command loop in both accepted forms: once
\* the plain string "STOP" taken from the local control queue, or the
\* {"type": "STOP"} body the coordinator publishes, taken from the remote
\* queue, has been handled, running is false.
C4_StopEndsTheLoop ==
    (\/ (source = "local" /\ payload = PlainStop)
     \/ (source = "rabbitmq" /\ payload = encode_payload(TRUE, "STOP")))
    => ~running

\* C5: no event makes handle_events raise.
C5_NoEventAbortsTheLoop == cpc # "aborted"

\* C6: when handle_events has returned, every peer's persisted results
\* (buffered path) equal its entry of the session-level results (mirror).
C6_WritePathsConverge ==
    Returned => \A p \in Peers : peers_results[p] = results[p]

\* an EPOCH arrived after its peer's DONE and a timer flush took place
C6_Witness ==
    /\ Returned
    /\ \E p \in Peers : Len(results[p]) > MaxEpochs /\ peer_buffers[p] # <<>>
    /\ \E p \in Peers : results[p] # <<>> /\ peer_buffers[p] = <<>>

C8_EpochOrderPerPeer ==
    \A p \in DOMAIN results :
        p \notin spoofed
        => /\ StrictlyIncreasing(results[p])
           /\ StrictlyIncreasing(peers_results[p])

C8_Witness ==
    /\ injected > 0
    /\ \E p \in Peers :
          /\ p \notin spoofed
          /\ Len(results[p]) = MaxEpochs /\ Len(peers_results[p]) = MaxEpochs
          /\ Len(results[p]) >= 2

\* C9: a step that counts a peer as completed, or that sets its status to
\* OFFLINE, starts in a state where the peer's buffer is empty and all its
\* received records are in its persisted results.
C9_FlushedBeforeOffline ==
    [][\A p \in Peers :
          (\/ (p \notin completed_peers /\ p \in completed_peers')
           \/ (peers_status[p] # "OFFLINE" /\ peers_status'[p] = "OFFLINE"))
          => (peer_buffers[p] = <<>> /\ peers_results[p] = results[p])]_vars

\* a peer's DONE is being processed while its buffer holds all its records
C9_Witness ==
    /\ cpc = "he_done_flush"
    /\ event.peer_uid \in Peers
    /\ peers_status[event.peer_uid] = "TRAINING"
    /\ peers_results[event.peer_uid] = <<>>
    /\ peer_buffers[event.peer_uid] = EpochsUpTo(MaxEpochs)

\* C10: whenever every peer is in completed_peers at the point where the
\* pulled event is looked at, the loop exits without processing the event.
C10_ExitsOnNextTick ==
    (cpc = "he_dispatch" /\ completed_peers = Peers)
    => AfterEvent(event, completed_peers, peer_buffers) = "he_final"

\* the session is missing, has no peers, or has fewer hyperparameter
\* configurations than peers
IsFaultyConfig ==
    \/ session_status = "ABSENT"
    \/ Len(session_peers) = 0
    \/ Len(hyperparameters) < Len(session_peers)

\* C11: when the session is missing, has no peers or has fewer
\* hyperparameter configurations than peers, coordinator_main's load step
\* raises, and it does so with no command published to any peer queue and
\* with the session, peer and user records as they were; nothing is
\* written or published afterwards.
C11_ConfigFaultsFailClosed ==
    [][/\ (cpc = "load" /\ IsFaultyConfig)
            => /\ cpc' = "failed"
               /\ \A p \in Peers : peer_queue'[p] = <<>>
               /\ UNCHANGED <<dbVars, chanVars>>
       /\ cpc = "failed" => UNCHANGED <<cpc, dbVars, chanVars>>]_vars

\* the coordinator has failed on a session whose non-empty hyperparameter
\* list is shorter than its peer list
C11_Witness ==
    /\ cpc = "failed"
    /\ session_status = "RUNNING"
    /\ Len(session_peers) = NPeers
    /\ Len(hyperparameters) >= 1
    /\ Len(hyperparameters) < Len(session_peers)

\* C12: in a completed session final_results has exactly one entry per
\* peer of the peer list, and the entry of the peer at position i carries
\* hyperparameters[i].
C12_FinalResultsIndexAligned ==
    session_status = "COMPLETED"
    => /\ Cardinality(DOMAIN final_results) = Len(session_peers)
       /\ \A i \in 1..Len(session_peers) :
             /\ session_peers[i] \in DOMAIN final_results
             /\ final_results[session_peers[i]].hyperparameters
                  = hyperparameters[i]

\* a session has completed whose peers were assigned different
\* configurations
C12_Witness ==
    /\ session_status = "COMPLETED"
    /\ Len(session_peers) = NPeers
    /\ Len(session_peers) >= 2
    /\ hyperparameters[1] # hyperparameters[2]
    /\ final_results[session_peers[2]].hyperparameters = hyperparameters[2]

\* the positions of a command queue that hold a command of the given type
Positions(queue, type) == {i \in 1..Len(queue) : queue[i].type = type}

\* handle_events has been entered
Dispatched ==
    \/ cpc \in {"he_tick", "he_dispatch", "he_done_flush", "he_done_add",
                "he_done_status", "he_done_user", "he_final"}
    \/ Returned

\* C13: every peer queue is sent at most one ENABLE, which names the
\* coordinator's event queue, and at most one TRAIN; no TRAIN is published
\* before every peer has been sent its ENABLE; on each queue the ENABLE
\* precedes the TRAIN; and once the event loop is entered every peer has
\* been sent exactly one of each.
C13_EnableBeforeTrain ==
    /\ \A p \in Peers :
          /\ Cardinality(Positions(peer_queue[p], "ENABLE")) <= 1
          /\ Cardinality(Positions(peer_queue[p], "TRAIN")) <= 1
          /\ \A i \in Positions(peer_queue[p], "ENABLE") :
                /\ peer_queue[p][i] = encode_payload(TRUE, "ENABLE")
                /\ peer_queue[p][i].queue = "events"
          /\ \A i \in Positions(peer_queue[p], "TRAIN") :
                \E j \in Positions(peer_queue[p], "ENABLE") : j < i
    /\ (\E p \in Peers : HasTrain(peer_queue[p]))
          => \A q \in Peers :
                Cardinality(Positions(peer_queue[q], "ENABLE")) = 1
    /\ Dispatched
          => \A p \in Peers :
                /\ Cardinality(Positions(peer_queue[p], "ENABLE")) = 1
                /\ Cardinality(Positions(peer_queue[p], "TRAIN")) = 1

\* the first peer has been sent its TRAIN and the last one only its ENABLE
C13_Witness ==
    /\ cpc = "train"
    /\ Len(peer_queue[1]) = 2
    /\ peer_queue[1][1].type = "ENABLE"
    /\ peer_queue[1][2].type = "TRAIN"
    /\ Len(peer_queue[NPeers]) = 1
    /\ peer_queue[NPeers][1].type = "ENABLE"

\* C14: every TRAIN command on the command queue of the peer at position i
\* of the peer list carries hyperparameters[i] and that peer's uid, and
\* the peer's entry of final_results carries the same configuration.
C14_TrainCarriesIndexedConfig ==
    \A i \in 1..Len(session_peers) :
        \A k \in Positions(peer_queue[session_peers[i]], "TRAIN") :
            /\ peer_queue[session_peers[i]][k].hyperparameters
                 = hyperparameters[i]
            /\ peer_queue[session_peers[i]][k].peer_uid = session_peers[i]
            /\ session_status = "COMPLETED"
                 => final_results[session_peers[i]].hyperparameters
                     = peer_queue[session_peers[i]][k].hyperparameters

\* a session with more configurations than peers has run to its end, the
\* first two peers having been sent different configurations
C14_Witness ==
    /\ cpc = "finished"
    /\ Len(hyperparameters) > Len(session_peers)
    /\ Len(session_peers) >= 2
    /\ hyperparameters[1] # hyperparameters[2]
    /\ \A i \in 1..Len(session_peers) :
          Positions(peer_queue[session_peers[i]], "TRAIN") # {}

\* a JSON object without a (truthy) peer_uid
HasNoPeerUid(e) == e.shape \in {"dict", "falsy"} /\ e.peer_uid = NoUid

\* C15: an event without peer_uid is dropped.  The pass that has pulled it
\* goes back to the pull (or, for an empty object, to the exit check)
\* leaving completed_peers, the peer buffers, the persisted per-peer
\* results, the session-level results and the peer statuses as they were;
\* pulling it changes neither completed_peers, nor results, nor a status.
C15_NoPeerUidIsDropped ==
    [][/\ (cpc = "he_dispatch" /\ HasNoPeerUid(event))
            => /\ cpc' \in {"he_tick", "he_final"}
               /\ cpc' = "he_final" => event.shape = "falsy"
               /\ UNCHANGED <<completed_peers, peer_buffers, peers_results,
                              results, peers_status>>
       /\ (cpc = "he_tick" /\ cpc' = "he_dispatch" /\ HasNoPeerUid(event'))
            => UNCHANGED <<completed_peers, results, peers_status>>]_vars

\* a DONE without peer_uid has been dropped while a peer had completed and
\* records were buffered
C15_Witness ==
    /\ cpc = "he_tick"
    /\ event = DoneEvent(NoUid)
    /\ completed_peers # {}
    /\ \E p \in Peers : peer_buffers[p] # <<>>

\* C16: a peer sub-document's status is TRAINING from the session's
\* creation and changes, to OFFLINE, only in the step of the DONE branch
\* that processes a completed DONE event carrying that peer's uid.
C16_OfflineOnlyOnOwnDone ==
    [][\A p \in Peers :
          /\ (peers_status[p] = "TRAINING" /\ peers_status'[p] # "TRAINING")
               => /\ peers_status'[p] = "OFFLINE"
                  /\ cpc = "he_done_status"
                  /\ event.shape = "dict"
                  /\ event.type = "DONE" /\ event.status = "completed"
                  /\ event.peer_uid = p
          /\ (peers_status[p] = "NONE" /\ peers_status'[p] # "NONE")
               => peers_status'[p] = "TRAINING" /\ cpc = "not_started"
          /\ peers_status[p] = "OFFLINE" => peers_status'[p] = "OFFLINE"]_vars

\* one peer is OFFLINE after its DONE while another, whose EPOCH records
\* have arrived, is still TRAINING after an event of another publisher
C16_Witness ==
    /\ cpc = "he_tick"
    /\ injected > 0
    /\ \E p \in Peers : \E q \in Peers :
          /\ peers_status[p] = "OFFLINE"
          /\ peers_status[q] = "TRAINING"
          /\ results[q] # <<>>

\* the last n messages the worker has published
LastSent(n) == SubSeq(sent, Len(sent) - n + 1, Len(sent))

\* handle_command has just returned from a TRAIN that ran to its end
JustTrained ==
    /\ IsJson(payload, "TRAIN")
    /\ wpc = AfterSource(source)

\* C17: on the heartbeat queue of an enabled peer the EPOCH heartbeats of
\* a TRAIN that runs N epochs carry the numbers 1, 2, ..., N in that order
\* with nothing in between, the DONE marker follows the last of them
\* directly, and there is one DONE per run: while train_dnn runs the
\* messages sent last are EPOCH 1..train_epoch, and when it has returned
\* they are EPOCH 1..N and DONE.
C17_EpochsThenDone ==
    /\ \A i \in 1..Len(sent) :
          /\ sent[i].has_epoch
               => /\ sent[i].epoch >= 1
                  /\ sent[i].epoch = 1 => (i = 1 \/ ~sent[i - 1].has_epoch)
                  /\ sent[i].epoch > 1
                       => /\ i > 1
                          /\ sent[i - 1] =
                                EpochEvent(Worker, sent[i].epoch - 1)
                  /\ i < Len(sent)
                       => sent[i + 1] \in
                             {EpochEvent(Worker, sent[i].epoch + 1),
                              DoneEvent(Worker)}
          /\ sent[i].type = "DONE"
               => i > 1 /\ sent[i - 1].has_epoch
    /\ (wpc = "training" /\ CanPublish(heartbeat_state))
          => /\ Len(sent) >= train_epoch
             /\ LastSent(train_epoch) = EpochEvents(Worker, 1, train_epoch)
    /\ (JustTrained /\ CanPublish(heartbeat_state))
          => /\ Len(sent) >= TrainEpochs(payload) + 1
             /\ LastSent(TrainEpochs(payload) + 1) =
                   TrainEvents(Worker, TrainEpochs(payload))

\* a peer that had sent an IDLE heartbeat has run a TRAIN to its end
C17_Witness ==
    /\ JustTrained
    /\ CanPublish(heartbeat_state)
    /\ sent = <<IdleEvent(Worker)>> \o TrainEvents(Worker, MaxEpochs)

\* C18: an IDLE heartbeat is published only by the loop when no training
\* runs and a heartbeat queue is attached, and it follows the heartbeat
\* published before it, of whatever kind, by at least HEARTBEAT_INTERVAL.
C18_IdleHeartbeatSpacing ==
    \A i \in 2..Len(sent) :
        sent[i].status = "idle"
        => sent_at[i] - sent_at[i - 1] >= HEARTBEAT_INTERVAL

\* C19: the command loop ends only by the loop test finding running
\* false, and running becomes false only when a STOP is handled; no
\* command, a TRAIN whose download or training fails included, ends it
\* otherwise.
C19_OnlyStopEndsTheLoop ==
    [][/\ (wpc # wpc' /\ wpc' \in {"exited", "crashed"})
            => wpc' = "exited" /\ ~running
       /\ (running /\ ~running') => payload'.type = "STOP"]_vars

\* C20: while train_dnn runs no command is taken from either queue and
\* none is handled: the command being handled, the heartbeat target and
\* the queues' contents stay (commands may only be added), and the loop
\* goes back to polling only from the end of train_dnn, with the DONE
\* marker published when a heartbeat queue is attached; a command is taken
\* from a queue only at that queue's poll, and a run starts at epoch 0.
C20_TrainingIsNotPreempted ==
    [][/\ wpc = "training"
            => /\ source' = source
               /\ payload' = payload
               /\ heartbeat_state'.enabled = heartbeat_state.enabled
               /\ heartbeat_state'.queue = heartbeat_state.queue
               /\ IsPrefix(control_queue, control_queue')
               /\ IsPrefix(rabbit_cmd_queue, rabbit_cmd_queue')
               /\ wpc' \in {"training", "crashed", AfterSource(source)}
               /\ wpc' = AfterSource(source)
                    => /\ train_epoch = TrainEpochs(payload)
                       /\ CanPublish(heartbeat_state)
                            => sent' = Append(sent, DoneEvent(Worker))
       /\ Len(control_queue') < Len(control_queue) => wpc = "local"
       /\ Len(rabbit_cmd_queue') < Len(rabbit_cmd_queue) => wpc = "remote"
       /\ (wpc # "training" /\ wpc' = "training") => train_epoch' = 0]_vars

\* an enabled peer is in the middle of a TRAIN, its first EPOCH heartbeat
\* sent, while a STOP waits on the control queue
C20_Witness ==
    /\ wpc = "training"
    /\ train_epoch >= 1
    /\ train_epoch < TrainEpochs(payload)
    /\ CanPublish(heartbeat_state)
    /\ Len(sent) >= 1
    /\ sent[Len(sent)] = EpochEvent(Worker, train_epoch)
    /\ control_queue # <<>>
    /\ Head(control_queue) = PlainStop

\* b is what a ends with
IsSuffix(b, a) ==
    Len(b) <= Len(a) /\ SubSeq(a, Len(a) - Len(b) + 1, Len(a)) = b

\* C21: the final flush appends to every peer's persisted results what its
\* buffer holds, and once handle_events has returned no record is left in
\* memory only: what a buffer still holds is the end of that peer's
\* persisted results, which have as many records as were buffered for it.
C21_NothingLeftInMemory ==
    [][/\ (cpc = "he_final" /\ Returned')
            => \A p \in Peers :
                  peers_results'[p] = peers_results[p] \o peer_buffers[p]
       /\ Returned'
            => \A p \in Peers :
                  /\ IsSuffix(peer_buffers'[p], peers_results'[p])
                  /\ Len(peers_results'[p]) = Len(results'[p])]_vars

\* handle_events has returned after a final flush of the records of an
\* EPOCH event that came after its peer's DONE
C21_Witness ==
    /\ cpc = "stop"
    /\ \E p \in Peers :
          /\ p \in completed_peers
          /\ peer_buffers[p] # <<>>
          /\ IsSuffix(peer_buffers[p], peers_results[p])
          /\ Len(peers_results[p]) > Len(peer_buffers[p])

\* the peer's own DONE has been pulled from the event queue
HasSignaledDone(p) == streams[p] = <<>>

HasStop(queue) == Positions(queue, "STOP") # {}

\* C22: no STOP is on any peer's command queue while some peer of the
\* session has not signaled DONE, and the session is COMPLETED, with its
\* final_results assembled, only after STOP has been published to every peer.
C22_StopOnlyAfterEveryDone ==
    /\ (\E p \in Peers : HasStop(peer_queue[p]))
         => \A q \in Peers : HasSignaledDone(q)
    /\ session_status = "COMPLETED"
         => /\ \A p \in Peers : HasStop(peer_queue[p])
            /\ final_results # <<>>

C24_FinalResultsAreTheReceivedRecords ==
    session_status = "COMPLETED"
        => /\ DOMAIN final_results = Peers
           /\ \A p \in Peers : final_results[p].results = results[p]

\* a COMPLETED session in which every peer reported all its epochs, one of
\* them after a timer flush had persisted the earlier ones
C24_Witness ==
    /\ session_status = "COMPLETED"
    /\ \A p \in Peers : final_results[p].results = EpochsUpTo(MaxEpochs)
    /\ \E p \in Peers : peer_buffers[p] # <<>>
                        /\ peer_buffers[p] # final_results[p].results

\* C25: every step that leaves train_dnn, by its return or by a fault,
\* leaves no local copy of the dataset behind unless os.remove itself
\* failed, and after such a failure the command loop goes on.
C25_DatasetRemovedAfterTrain ==
    [][(wpc = "training" /\ wpc' # "training")
          => /\ dataset_file' # "present"
             /\ dataset_file' = "undeletable"
                  => wpc' = AfterSource(source) /\ running']_vars

\* C26: the failure of a flush's write to the durable store (timer,
\* completion or final flush) never takes the coordinator out of
\* handle_events: the exception of the failed update_one does not leave
\* the event loop.
C26_FailedFlushIsNotFatal == cpc # "write_failed"

\* the step pushes peer p's buffer to its persisted results
Flushes(p) == peers_results'[p] # peers_results[p]

\* what a flushing step leaves alone: the session-level results map, the
\* statuses, and the persisted results and the buffer of every peer it
\* does not flush
FlushFrame ==
    /\ UNCHANGED <<results, session_status, peers_status>>
    /\ \A q \in Peers :
          ~Flushes(q) => UNCHANGED <<peers_results[q], peer_buffers[q]>>

Handles(src, cmd) ==
    /\ wpc = src
    /\ source' = IF src = "local" THEN "local" ELSE "rabbitmq"
    /\ payload' = cmd
    /\ IF src = "local"
         THEN running /\ control_queue # <<>>
              /\ control_queue' = Tail(control_queue)
         ELSE rabbit_cmd_queue # <<>>
              /\ rabbit_cmd_queue' = Tail(rabbit_cmd_queue)

\* the part of the worker's state the command loop carries from one
\* command to the next
LoopState == <<running, heartbeat_state, train_epoch, dataset_file, sent>>

\* C28: handling ENABLE with target queue q, from either source, records q
\* as the heartbeat target, leaves the loop running and leaves the
\* training state and what has been published as they were; handling the
\* same ENABLE again directly after it changes nothing of the loop's state.
C28_EnableIsIdempotent ==
    [][\A src \in {"local", "remote"} : \A cmd \in Commands :
          (IsJson(cmd, "ENABLE") /\ Handles(src, cmd))
             => /\ heartbeat_state'.enabled
                /\ heartbeat_state'.queue = cmd.queue
                /\ running'
                /\ wpc' = AfterSource(src)
                /\ UNCHANGED <<train_epoch, dataset_file, sent, sent_at>>
                /\ (payload = cmd /\ running
                      /\ heartbeat_state = enable_state(cmd))
                     => UNCHANGED LoopState]_vars

\* the same ENABLE has been handled from the control queue and then, in
\* the same pass, from the RabbitMQ queue
C28_Witness ==
    /\ wpc = "beat"
    /\ source = "rabbitmq"
    /\ payload = encode_payload(TRUE, "ENABLE")
    /\ control_queue = <<>>
    /\ rabbit_cmd_queue = <<>>
    /\ commanded = 2
    /\ running
    /\ heartbeat_state = enable_state(payload)
    /\ sent = <<>>

\* C29: once a plain STOP from the control queue has been handled, the
\* worker handles no further command: at the RabbitMQ poll of the same pass
\* it takes nothing from its queue, running stays false, and the loop exits
\* at its next test.
C29_StopIsTerminalWithinATick ==
    [][(wpc = "remote" /\ source = "local" /\ payload = PlainStop)
          => /\ IsPrefix(rabbit_cmd_queue, rabbit_cmd_queue')
             /\ ~running'
             /\ wpc' \in {"remote", "beat"}]_vars

\* the TRAIN being handled carries a "hyperparameters" object
HasHyperparameters(cmd) == IsJson(cmd, "TRAIN") /\ cmd.hyperparameters # NoKey

\* C30: the run of a TRAIN that carries a hyperparameters object makes as
\* many epochs as the object's "epochs" entry says: it never goes past
\* that number, has made exactly that many when train_dnn returns, and an
\* enabled peer has then published that many EPOCH heartbeats and DONE.
C30_EpochsFromHyperparameters ==
    HasHyperparameters(payload)
      => /\ wpc = "training"
              => train_epoch <= ConfigEpochs(payload.hyperparameters)
         /\ JustTrained
              => train_epoch = ConfigEpochs(payload.hyperparameters)
         /\ (JustTrained /\ CanPublish(heartbeat_state))
              => LastSent(ConfigEpochs(payload.hyperparameters) + 1) =
                    TrainEvents(Worker,
                                ConfigEpochs(payload.hyperparameters))

\* C31: a session created by start_session has as many hyperparameter
\* configurations as peers, the peer at position i is stored with
\* configuration i, and the results map has one entry per peer uid, empty
\* at creation; the peer list and the configurations stay as created, and
\* at completion final_results gives every peer the configuration it was
\* stored with.
C31_IndexAlignedFromStartToEnd ==
    session_status # "ABSENT"
      => /\ Len(hyperparameters) = Len(session_peers)
         /\ session_peers = AllPeers
         /\ DOMAIN peers_hyperparameters = Uids(session_peers)
         /\ \A i \in 1..Len(session_peers) :
               peers_hyperparameters[session_peers[i]] = hyperparameters[i]
         /\ DOMAIN results = Uids(session_peers)
         /\ cpc = "load" => \A uid \in DOMAIN results : results[uid] = <<>>
         /\ session_status = "COMPLETED"
              => \A i \in 1..Len(session_peers) :
                    final_results[session_peers[i]].hyperparameters =
                       peers_hyperparameters[session_peers[i]]

\* a session whose peers were given different configurations is COMPLETED
C31_Witness ==
    /\ session_status = "COMPLETED"
    /\ \E i, j \in 1..Len(session_peers) :
          /\ hyperparameters[i] # hyperparameters[j]
          /\ final_results[session_peers[i]].hyperparameters =
                hyperparameters[i]
          /\ final_results[session_peers[j]].hyperparameters =
                hyperparameters[j]

\* C32: the loop of handle_events is left, for the final flush, only in a
\* pass whose pull timed out (event = None): never in a pass that took a
\* message from the event queue.
C32_ExitsOnlyOnNullPull ==
    [][(cpc = "he_dispatch" /\ cpc' = "he_final") => event = NoEvent]_vars

\* C33: a peer that has handled no ENABLE has published nothing, and a
\* TRAIN handled while no heartbeat target is set runs its epochs to the
\* end of train_dnn without publishing an EPOCH heartbeat or a DONE marker.
C33_NoEnableNoHeartbeats ==
    [][/\ ~heartbeat_state.enabled => sent = <<>>
       /\ (wpc = "training" /\ ~CanPublish(heartbeat_state))
            => /\ sent' = sent
               /\ wpc' = AfterSource(source)
                    => train_epoch = TrainEpochs(payload)]_vars

\* the coordinator's TRAIN has been run to its end by a peer that was
\* never enabled
C33_Witness ==
    /\ JustTrained
    /\ payload \in {train_payload(c, Worker) : c \in HyperConfigs}
    /\ ~heartbeat_state.enabled
    /\ train_epoch = DefaultEpochs
    /\ sent = <<>>

\* the DONE branch has been entered for a peer that is already counted
RepeatedDone ==
    /\ cpc = "he_done_flush"
    /\ event.peer_uid \in completed_peers

\* C34: completed_peers never loses a member and changes only by the DONE
\* branch adding the peer_uid of its event; the DONE of a peer that is
\* already counted leaves completed_peers as it is, the statuses its
\* OFFLINE writes set are OFFLINE already, and like a first DONE it pushes
\* what the peer's buffer holds to the peer's results.
C34_CompletedCountIsMonotonic ==
    [][/\ completed_peers \subseteq completed_peers'
       /\ Cardinality(completed_peers') >= Cardinality(completed_peers)
       /\ completed_peers' # completed_peers
            => /\ cpc = "he_done_add"
               /\ event.peer_uid \notin completed_peers
               /\ completed_peers' = completed_peers \cup {event.peer_uid}
       /\ (cpc = "he_done_add" /\ event.peer_uid \in completed_peers)
            => Cardinality(completed_peers') = Cardinality(completed_peers)
       /\ (RepeatedDone /\ event.peer_uid \in Peers)
            => /\ peers_status[event.peer_uid] = "OFFLINE"
               /\ users_status[event.peer_uid] = "OFFLINE"
               /\ peers_results' =
                     [peers_results EXCEPT ![event.peer_uid] =
                         @ \o peer_buffers[event.peer_uid]]
               /\ peer_buffers' =
                     [peer_buffers EXCEPT ![event.peer_uid] = <<>>]
               /\ UNCHANGED <<results, peers_status, users_status>>]_vars

\* a second DONE of a counted peer has pushed the epochs received since the
\* first one, while another peer has not completed
C34_Witness ==
    /\ cpc = "he_done_add"
    /\ event.peer_uid \in Peers
    /\ event.peer_uid \in completed_peers
    /\ peers_status[event.peer_uid] = "OFFLINE"
    /\ Cardinality(completed_peers) = 1
    /\ peer_buffers[event.peer_uid] = <<>>
    /\ peers_results[event.peer_uid] = EpochsUpTo(MaxEpochs)
    /\ streams[event.peer_uid] = <<>>

\* coordinator_main has been left by an exception raised inside its try block
Faulted(pc) ==
    pc \in {"aborted", "write_failed", "publish_failed", "finalize_failed"}

\* what every fault before the final update leaves: the session RUNNING,
\* no final_results, no completion time, the coordinating user not OFFLINE
LeftRunning ==
    /\ session_status' = "RUNNING"
    /\ final_results' = <<>>
    /\ ~completed_at'
    /\ users_status'[Coordinator] # "OFFLINE"

\* once coordinator_main has been left, nothing of the session changes
FaultIsFinal == Faulted(cpc) => UNCHANGED <<dbVars, chanVars, cpc>>

\* C35 as stated: a fault after RabbitMQ setup and before the final update
\* leaves the session RUNNING, final_results unwritten, the coordinating
\* user not OFFLINE, and no STOP on any peer's command queue.
C35_FaultLeavesNoStop ==
    [][/\ (Faulted(cpc') /\ ~Faulted(cpc))
            => /\ LeftRunning
               /\ \A p \in Peers : ~HasStop(peer_queue'[p])
       /\ FaultIsFinal]_vars

\* C35: a fault after RabbitMQ setup and before the final update leaves the
\* session RUNNING, final_results unwritten and the coordinating user not
\* OFFLINE; no STOP is on any peer's command queue when the fault is raised
\* before handle_events has returned, while a fault of the STOP loop or of
\* the read-back that follows it leaves the STOPs published so far.
C35_FaultLeavesSessionRunning ==
    [][/\ (Faulted(cpc') /\ ~Faulted(cpc))
            => /\ LeftRunning
               /\ rabbitmq.channel = "open"
               /\ ~Returned => \A p \in Peers : ~HasStop(peer_queue'[p])
               /\ cpc = "stop"
                    => \A i \in 1..Len(session_peers) :
                          HasStop(peer_queue'[session_peers[i]]) <=> i < cidx
               /\ cpc = "finalize"
                    => \A p \in Peers : HasStop(peer_queue'[p])
       /\ FaultIsFinal]_vars

\* the STOP loop has faulted after it had published STOP to the first peer
C35_Witness ==
    /\ cpc = "publish_failed"
    /\ session_status = "RUNNING" /\ final_results = <<>>
    /\ HasStop(peer_queue[1]) /\ ~HasStop(peer_queue[2])

\* coordinator_main is inside its try block
InTry == cpc \notin {"not_started", "load", "failed"} /\ ~Exited(cpc)

\* C39: once RabbitMQ setup has succeeded, the channel and the connection
\* stay open while coordinator_main is inside its try block and are both
\* closed on every way out of it: the normal completion and a fault of the
\* ENABLE, TRAIN, collect, STOP or finalize steps.
C39_ClosedOnEveryExit ==
    /\ InTry => rabbitmq = connect_rabbitmq
    /\ Exited(cpc)
         => rabbitmq.channel = "closed" /\ rabbitmq.connection = "closed"
    /\ cpc \in {"not_started", "load", "failed"} => rabbitmq = NotConnected

\* a fault of the finalize step has closed both
C39_Witness ==
    /\ cpc = "finalize_failed"
    /\ rabbitmq.channel = "closed" /\ rabbitmq.connection = "closed"

\* C34 as stated: the completed-peer count never decreases, a repeated DONE
\* does not increase it, and a repeated DONE does nothing but re-apply the
\* OFFLINE status writes (it pushes nothing to the peer's results).
C34_RepeatedDoneOnlyRewritesStatus ==
    [][/\ Cardinality(completed_peers') >= Cardinality(completed_peers)
       /\ (cpc = "he_done_add" /\ event.peer_uid \in completed_peers)
            => Cardinality(completed_peers') = Cardinality(completed_peers)
       /\ RepeatedDone => UNCHANGED <<peers_results, peer_buffers>>]_vars

\* the pass has pulled an EPOCH heartbeat of a session peer that is already
\* counted as completed
LateEpoch ==
    /\ cpc = "he_dispatch"
    /\ IsStoredEpoch(event, peer_buffers)
    /\ event.peer_uid \in completed_peers

\* peer p's buffer loses records in this step
Drains(p) == ~IsPrefix(peer_buffers[p], peer_buffers'[p])

\* what the processing of a late EPOCH does: the record is appended to
\* results[peer] and to the peer's buffer, and neither completed_peers nor
\* a status changes
LateEpochIsBuffered ==
    LateEpoch
      => /\ results' = [results EXCEPT ![event.peer_uid] =
                           Append(@, event.epoch)]
         /\ peer_buffers' = [peer_buffers EXCEPT ![event.peer_uid] =
                                Append(@, event.epoch)]
         /\ UNCHANGED <<completed_peers, peers_status, users_status,
                        session_status, peers_results>>

\* when handle_events has returned, every record of a peer's buffer is in
\* that peer's persisted results
BufferedIsPersisted ==
    Returned => \A p \in Peers : IsSuffix(peer_buffers[p], peers_results[p])

\* C36 as stated: an EPOCH of a session peer processed after that peer's
\* DONE is appended to results[peer] at once, changes neither
\* completed_peers nor a status, and leaves the peer's buffer for
\* peers[peer].results only through a timer flush or the final flush.
C36_LateEpochFlushedByTimerOrFinal ==
    [][/\ LateEpochIsBuffered
       /\ \A p \in completed_peers \cap Peers :
             Drains(p) => /\ cpc = "he_tick"
                          /\ peers_results'[p] =
                                peers_results[p] \o peer_buffers[p]
       /\ (cpc = "he_final" /\ cpc' = "stop") => BufferedIsPersisted']_vars

\* C36: an EPOCH of a session peer processed after that peer's DONE is
\* appended to results[peer] at once, changes neither completed_peers nor a
\* status, and leaves the peer's buffer only by being pushed to
\* peers[peer].results: by a timer flush, by the completion flush of a
\* repeated DONE of that peer, or (staying in the buffer) by the final flush.
C36_LateEpochIsRecorded ==
    [][/\ LateEpochIsBuffered
       /\ \A p \in completed_peers \cap Peers :
             Drains(p) => /\ cpc \in {"he_tick", "he_done_flush"}
                          /\ peers_results'[p] =
                                peers_results[p] \o peer_buffers[p]
       /\ (cpc = "he_final" /\ cpc' = "stop") => BufferedIsPersisted']_vars

\* the pass has appended the EPOCH of a peer that is counted as completed
\* and OFFLINE to that peer's mirror entry and to its buffer
C36_Witness ==
    /\ cpc = "he_tick"
    /\ IsStoredEpoch(event, peer_buffers)
    /\ event.peer_uid \in completed_peers
    /\ streams[event.peer_uid] = <<>>
    /\ peers_status[event.peer_uid] = "OFFLINE"
    /\ users_status[event.peer_uid] = "OFFLINE"
    /\ results[event.peer_uid] = Append(EpochsUpTo(MaxEpochs), event.epoch)
    /\ peer_buffers[event.peer_uid] = <<event.epoch>>
    /\ peers_results[event.peer_uid] = EpochsUpTo(MaxEpochs)

\* C37: from the insertion of the session document on, the keys of the
\* session-level results map are the uids of the session's peers, whatever
\* event the coordinator processes: the mirror write of an EPOCH whose
\* peer_uid is not a session peer is never reached.
C37_ResultsKeysArePeerUids ==
    /\ session_status # "ABSENT" => DOMAIN results = Uids(session_peers)
    /\ session_status = "ABSENT" => results = <<>>

\* the EPOCH of a uid that is not a session peer has been processed (the
\* buffer append raised KeyError) and the map has no entry for it
C37_Witness ==
    /\ cpc = "aborted"
    /\ event = EpochEvent(ForeignUid, 1)
    /\ DOMAIN results = Peers
    /\ ForeignUid \notin DOMAIN results

\* the name under which a worker is registered
Registered == DOMAIN workers

\* C38: the registry never holds more than one worker, and it is the one
\* started last; a step that finds a worker registered and leaves one
\* registered starts no process and leaves the registry as it is (a join
\* while registered); a step that removes the entry has put STOP on that
\* worker's control queue and on no other (a leave); a step that registers a
\* worker has started exactly that process, with an empty control queue
\* (a join after a leave starts a new worker).
C38_AtMostOneRegisteredWorker ==
    [][/\ Cardinality(Registered') <= 1
       /\ Registered' # {}
            => workers'[HEARTBEAT_WORKER].process = Len(processes')
       /\ (Registered # {} /\ Registered' # {})
            => UNCHANGED <<workers, processes>>
       /\ (Registered # {} /\ Registered' = {})
            => processes' =
                 [processes EXCEPT
                    ![workers[HEARTBEAT_WORKER].process].control_queue =
                        Append(@, PlainStop)]
       /\ (Registered = {} /\ Registered' # {})
            => /\ Len(processes') = Len(processes) + 1
               /\ SubSeq(processes', 1, Len(processes)) = processes
               /\ processes'[Len(processes')].control_queue = <<>>
               /\ processes'[Len(processes')].session_uid =
                     workers'[HEARTBEAT_WORKER].session_uid
       /\ (Registered = {} /\ Registered' = {})
            => UNCHANGED processes]_vars

\* a second worker is registered after the first one was told to stop
C38_Witness ==
    /\ Len(processes) = 2
    /\ processes[1].control_queue = <<PlainStop>>
    /\ processes[2].control_queue = <<>>
    /\ Registered = {HEARTBEAT_WORKER}
    /\ workers[HEARTBEAT_WORKER].process = 2

====
